---- MODULE Spec2Model ----
(***************************************************************************)
(* A model of the dim API client (src/dim/api.py, src/dim/decorators.py).  *)
(* One client object is constructed (which logs in) and then its endpoint  *)
(* methods are called in any order.  The HTTP server is the environment:   *)
(* every request is answered by a response chosen from Responses.          *)
(***************************************************************************)
EXTENDS Integers, Sequences, FiniteSets, TLC

VARIABLES phase, _url, _token, call, wire, ret, raised, first

vars == <<phase, _url, _token, call, wire, ret, raised, first>>

(***************************************************************************)
(* Bounds of the model.                                                    *)
(***************************************************************************)
\* identifiers (media, library, tv, episode, stream ids) range over 1..MaxId
MaxId == 2

(***************************************************************************)
(* Python values.  Every value is a record of one shape so that any two    *)
(* can be compared: t is the Python type, and s, n, d hold the string, the *)
(* number (a bool is 0 or 1), or the dict (a function from keys to values) *)
(* or list (a sequence).                                                   *)
(***************************************************************************)
EmptyMap == [k \in {} |-> 0]
PyNone == [t |-> "None", s |-> "", n |-> 0, d |-> EmptyMap]
PyStr(str) == [t |-> "str", s |-> str, n |-> 0, d |-> EmptyMap]
PyInt(i) == [t |-> "int", s |-> "", n |-> i, d |-> EmptyMap]
PyBool(b) == [t |-> "bool", s |-> "", n |-> IF b THEN 1 ELSE 0, d |-> EmptyMap]
PyDict(map) == [t |-> "dict", s |-> "", n |-> 0, d |-> map]
PyList(seq) == [t |-> "list", s |-> "", n |-> 0, d |-> seq]
PyTrue == PyBool(TRUE)
PyFalse == PyBool(FALSE)

\* bool(v): the truth value Python's `if v:` / `not v` tests
Truthy(v) ==
  CASE v.t = "None" -> FALSE
    [] v.t = "str" -> v.s # ""
    [] v.t = "int" -> v.n # 0
    [] v.t = "bool" -> v.n = 1
    [] v.t = "dict" -> DOMAIN v.d # {}
    [] v.t = "list" -> DOMAIN v.d # {}

\* f"{v}": the text an f-string substitutes for v
Format(v) ==
  CASE v.t = "None" -> "None"
    [] v.t = "str" -> v.s
    [] v.t = "int" -> ToString(v.n)
    [] v.t = "bool" -> IF v.n = 1 THEN "True" ELSE "False"

\* str.endswith
endswith(str, suffix) ==
  /\ Len(str) >= Len(suffix)
  /\ SubSeq(str, Len(str) - Len(suffix) + 1, Len(str)) = suffix

(***************************************************************************)
(* The HTTP exchange.  A response is what the session hands back: ok is    *)
(* its truth value (a response is truthy exactly when its status is a      *)
(* success), json its decoded body and text its raw body.                  *)
(***************************************************************************)
Request(verb, url, params, headers, kwargs) == [verb |-> verb, url |-> url, params |-> params, headers |-> headers, kwargs |-> kwargs]

\* `if response:` on a response object
ResponseTruthy(response) == response.ok

\* what a call has done: the object's attributes after it, the requests it
\* issued with the responses they got, its return value, the exception raised
Effect(self, sent, value, exc) == [self |-> self, wire |-> sent, ret |-> value, raised |-> exc]

\* dim.static.empty_dict
empty_dict == PyDict(EmptyMap)

\* the headers every transport primitive builds
AuthHeaders(self) == IF Truthy(self._token) THEN [h \in {"Authorization"} |-> Format(self._token)] ELSE EmptyMap

\* `if not params: params = {}`
ParamsOrEmpty(params) == IF ~Truthy(params) THEN EmptyMap ELSE params.d

\* f"{self._url}/{command}"
UrlFor(self, command) == self._url \o "/" \o Format(command)

Exchange(request, response) == <<[req |-> request, resp |-> response]>>

_get(self, command, params, response) == Effect(self, Exchange(Request("GET", UrlFor(self, command), ParamsOrEmpty(params), AuthHeaders(self), EmptyMap), response), response, "")

\* a variant of _get_json that asks again when the response is falsy
_get_json_retry(self, command, params, response) ==
  LET r == _get(self, command, params, response)
  IN  IF ResponseTruthy(r.ret) THEN Effect(r.self, r.wire, r.ret.json, r.raised)
      ELSE Effect(r.self, r.wire \o _get(self, command, params, response).wire, empty_dict, r.raised)

_get_json(self, command, params, response) ==
  LET r == _get(self, command, params, response)
  IN  IF ResponseTruthy(r.ret) THEN Effect(r.self, r.wire, r.ret.json, r.raised)
      ELSE Effect(r.self, r.wire, empty_dict, r.raised)

_post(self, command, params, kwargs, response) == Effect(self, Exchange(Request("POST", UrlFor(self, command), ParamsOrEmpty(params), AuthHeaders(self), kwargs), response), response, "")

_post_json(self, command, params, kwargs, response) ==
  LET r == _post(self, command, params, kwargs, response)
  IN  IF ResponseTruthy(r.ret) THEN Effect(r.self, r.wire, r.ret.json, r.raised)
      ELSE Effect(r.self, r.wire, empty_dict, r.raised)

_patch(self, command, params, kwargs, response) == Effect(self, Exchange(Request("PATCH", UrlFor(self, command), ParamsOrEmpty(params), AuthHeaders(self), kwargs), response), response, "")

\* a variant of _patch_json that decodes the body whatever the status
_patch_json_unchecked(self, command, params, kwargs, response) ==
  LET r == _patch(self, command, params, kwargs, response)
  IN  Effect(r.self, r.wire, r.ret.json, r.raised)

_patch_json(self, command, params, kwargs, response) ==
  LET r == _patch(self, command, params, kwargs, response)
  IN  IF ResponseTruthy(r.ret) THEN Effect(r.self, r.wire, r.ret.json, r.raised)
      ELSE Effect(r.self, r.wire, empty_dict, r.raised)

_delete(self, command, params, kwargs, response) == Effect(self, Exchange(Request("DELETE", UrlFor(self, command), ParamsOrEmpty(params), AuthHeaders(self), kwargs), response), response, "")

_delete_json(self, command, params, kwargs, response) ==
  LET r == _delete(self, command, params, kwargs, response)
  IN  IF ResponseTruthy(r.ret) THEN Effect(r.self, r.wire, r.ret.json, r.raised)
      ELSE Effect(r.self, r.wire, empty_dict, r.raised)

\* the json= keyword argument of the login call
LoginBody(username, password) == [k \in {"json"} |-> PyDict([username |-> PyStr(username), password |-> PyStr(password)])]

\* a variant of _authenticate that reports success without keeping the token
_authenticate_forgetful(self, username, password, response) ==
  LET r == _post_json(self, PyStr("auth/login"), PyNone, LoginBody(username, password), response)
  IN  IF Truthy(r.ret)
      THEN IF "token" \in DOMAIN r.ret.d
           THEN Effect(r.self, r.wire, PyTrue, "")
           ELSE Effect(r.self, r.wire, PyNone, "KeyError")
      ELSE Effect(r.self, r.wire, PyFalse, "")

_authenticate(self, username, password, response) ==
  LET r == _post_json(self, PyStr("auth/login"), PyNone, LoginBody(username, password), response)
  IN  IF Truthy(r.ret)
      THEN IF "token" \in DOMAIN r.ret.d
           THEN Effect([r.self EXCEPT !._token = r.ret.d["token"]], r.wire, PyTrue, "")
           ELSE Effect(r.self, r.wire, PyNone, "KeyError")
      ELSE Effect(r.self, r.wire, PyFalse, "")

\* a variant of __init__ that ignores what _authenticate returns
Construct_unchecked(base_url, username, password, response) ==
  LET stripped == IF endswith(base_url, "/") THEN SubSeq(base_url, 1, Len(base_url) - 1) ELSE base_url
      self == [_url |-> stripped \o "/api/v1", _token |-> PyNone]
      a == _authenticate(self, username, password, response)
  IN  Effect(a.self, a.wire, PyNone, a.raised)

\* API.__init__; the effect's ret is None, as of every constructor
Construct(base_url, username, password, response) ==
  LET stripped == IF endswith(base_url, "/") THEN SubSeq(base_url, 1, Len(base_url) - 1) ELSE base_url
      self == [_url |-> stripped \o "/api/v1", _token |-> PyNone]
      a == _authenticate(self, username, password, response)
  IN  IF a.raised # "" THEN Effect(a.self, a.wire, PyNone, a.raised)
      ELSE IF ~Truthy(a.ret) THEN Effect(a.self, a.wire, PyNone, "Authentication failed")
      ELSE Effect(a.self, a.wire, PyNone, "")

(***************************************************************************)
(* dim.utils and dim.static are not among the source files; the helpers    *)
(* below are modelled from their use and from the specification.           *)
(***************************************************************************)
\* dim.utils._is_invalid_choice(value, name, choices)
_is_invalid_choice(value, name, choices) == value \notin choices

\* dim.utils.build_optional_params(**kwargs): the arguments that are not None
build_optional_params(kwargs) == PyDict([k \in {x \in DOMAIN kwargs : kwargs[x] # PyNone} |-> kwargs[k]])

\* dim.utils.int_list_to_string(ints): the numbers joined by commas
RECURSIVE JoinInts(_)
JoinInts(ints) == IF Len(ints) = 0 THEN "" ELSE IF Len(ints) = 1 THEN ToString(ints[1]) ELSE ToString(ints[1]) \o "," \o JoinInts(Tail(ints))

int_list_to_string(includes) == IF includes.t = "None" THEN PyNone ELSE PyStr(JoinInts(includes.d))

\* dim.utils._get_response_data(json_data): the envelope normalisation
_get_response_data(json_data) ==
  IF ~Truthy(json_data) THEN PyDict(EmptyMap)
  ELSE IF "data" \in DOMAIN json_data.d THEN json_data.d["data"]
  ELSE json_data

MediaTypeChoices == {PyStr("movie"), PyStr("tv")}

(***************************************************************************)
(* The shaping decorators.  func is what the wrapped method returned: a    *)
(* (command, params) pair, or the exception it raised.                     *)
(***************************************************************************)
Pair(command, params) == [command |-> command, params |-> params, raised |-> ""]
Raise(exc) == [command |-> PyNone, params |-> PyNone, raised |-> exc]

get_json(self, func, response) ==
  IF func.raised # "" THEN Effect(self, <<>>, PyNone, func.raised)
  ELSE IF ~Truthy(func.command) THEN Effect(self, <<>>, PyDict(EmptyMap), "")
  ELSE LET j == _get_json(self, func.command, func.params, response)
       IN  Effect(j.self, j.wire, _get_response_data(j.ret), j.raised)

post_json(self, func, response) ==
  IF func.raised # "" THEN Effect(self, <<>>, PyNone, func.raised)
  ELSE IF ~Truthy(func.command) THEN Effect(self, <<>>, PyDict(EmptyMap), "")
  ELSE LET j == _post_json(self, func.command, func.params, EmptyMap, response)
       IN  Effect(j.self, j.wire, _get_response_data(j.ret), j.raised)

\* a variant of post_bool that reports success whatever the status
post_bool_always(self, func, response) ==
  IF func.raised # "" THEN Effect(self, <<>>, PyNone, func.raised)
  ELSE IF ~Truthy(func.command) THEN Effect(self, <<>>, PyFalse, "")
  ELSE LET res == _post(self, func.command, func.params, EmptyMap, response)
       IN  Effect(res.self, res.wire, PyTrue, res.raised)

post_bool(self, func, response) ==
  IF func.raised # "" THEN Effect(self, <<>>, PyNone, func.raised)
  ELSE IF ~Truthy(func.command) THEN Effect(self, <<>>, PyFalse, "")
  ELSE LET res == _post(self, func.command, func.params, EmptyMap, response)
       IN  Effect(res.self, res.wire, PyBool(res.ret.ok), res.raised)

\* a variant of patch_json without the empty-command guard
patch_json_unguarded(self, func, response) ==
  IF func.raised # "" THEN Effect(self, <<>>, PyNone, func.raised)
  ELSE LET j == _patch_json(self, func.command, func.params, EmptyMap, response)
       IN  Effect(j.self, j.wire, _get_response_data(j.ret), j.raised)

patch_json(self, func, response) ==
  IF func.raised # "" THEN Effect(self, <<>>, PyNone, func.raised)
  ELSE IF ~Truthy(func.command) THEN Effect(self, <<>>, PyDict(EmptyMap), "")
  ELSE LET j == _patch_json(self, func.command, func.params, EmptyMap, response)
       IN  Effect(j.self, j.wire, _get_response_data(j.ret), j.raised)

\* a variant of patch_bool that sends the parameters as the JSON body
patch_bool_body(self, func, response) ==
  IF func.raised # "" THEN Effect(self, <<>>, PyNone, func.raised)
  ELSE IF ~Truthy(func.command) THEN Effect(self, <<>>, PyFalse, "")
  ELSE LET res == _patch(self, func.command, PyNone, [k \in {"json"} |-> func.params], response)
       IN  Effect(res.self, res.wire, PyBool(res.ret.ok), res.raised)

patch_bool(self, func, response) ==
  IF func.raised # "" THEN Effect(self, <<>>, PyNone, func.raised)
  ELSE IF ~Truthy(func.command) THEN Effect(self, <<>>, PyFalse, "")
  ELSE LET res == _patch(self, func.command, func.params, EmptyMap, response)
       IN  Effect(res.self, res.wire, PyBool(res.ret.ok), res.raised)

delete_json(self, func, response) ==
  IF func.raised # "" THEN Effect(self, <<>>, PyNone, func.raised)
  ELSE IF ~Truthy(func.command) THEN Effect(self, <<>>, PyDict(EmptyMap), "")
  ELSE LET j == _delete_json(self, func.command, func.params, EmptyMap, response)
       IN  Effect(j.self, j.wire, _get_response_data(j.ret), j.raised)

\* a variant of delete_bool that drops the token when the server refuses
delete_bool_logout(self, func, response) ==
  IF func.raised # "" THEN Effect(self, <<>>, PyNone, func.raised)
  ELSE IF ~Truthy(func.command) THEN Effect(self, <<>>, PyFalse, "")
  ELSE LET res == _delete(self, func.command, func.params, EmptyMap, response)
       IN  Effect(IF res.ret.ok THEN res.self ELSE [res.self EXCEPT !._token = PyNone], res.wire, PyBool(res.ret.ok), res.raised)

delete_bool(self, func, response) ==
  IF func.raised # "" THEN Effect(self, <<>>, PyNone, func.raised)
  ELSE IF ~Truthy(func.command) THEN Effect(self, <<>>, PyFalse, "")
  ELSE LET res == _delete(self, func.command, func.params, EmptyMap, response)
       IN  Effect(res.self, res.wire, PyBool(res.ret.ok), res.raised)

(***************************************************************************)
(* The undecorated bodies of the endpoint methods that do more than name a *)
(* path, and the two endpoint methods that use no decorator.               *)
(***************************************************************************)
rematch_media_file_func(media_id, tmdb_id, media_type) ==
  IF _is_invalid_choice(media_type, "media_type", MediaTypeChoices) THEN Raise("Invalid media type")
  ELSE Pair(PyStr("mediafile/" \o Format(media_id) \o "/match"), PyDict([tmdb_id |-> tmdb_id, media_type |-> media_type]))

tmdb_search_func(query, media_type, year) ==
  IF _is_invalid_choice(media_type, "media_type", MediaTypeChoices) THEN Raise("Invalid media type")
  ELSE Pair(PyStr("tmdb_search"), build_optional_params([query |-> query, media_type |-> media_type, year |-> year]))

file_browser_func(path) == IF Truthy(path) THEN Pair(PyStr("filebrowser/" \o Format(path)), PyNone) ELSE Pair(PyStr("filebrowser"), PyNone)

AddLibraryBody(paths, name, media_type) == [k \in {"json"} |-> PyDict([locations |-> paths, name |-> name, media_type |-> media_type])]

\* a variant of add_library that validates only after posting
add_library_late_check(self, paths, name, media_type, response) ==
  LET r == _post(self, PyStr("library"), PyNone, AddLibraryBody(paths, name, media_type), response)
  IN  IF _is_invalid_choice(media_type, "media_type", MediaTypeChoices) THEN Effect(r.self, r.wire, PyNone, "Invalid media type")
      ELSE IF ResponseTruthy(r.ret) THEN Effect(r.self, r.wire, PyTrue, r.raised)
      ELSE Effect(r.self, r.wire, PyFalse, r.raised)

add_library_impl(self, paths, name, media_type, response) ==
  IF _is_invalid_choice(media_type, "media_type", MediaTypeChoices) THEN Effect(self, <<>>, PyNone, "Invalid media type")
  ELSE LET r == _post(self, PyStr("library"), PyNone, AddLibraryBody(paths, name, media_type), response)
       IN  IF ResponseTruthy(r.ret) THEN Effect(r.self, r.wire, PyTrue, r.raised)
           ELSE Effect(r.self, r.wire, PyFalse, r.raised)

get_manifest_impl(self, stream_id, start_num, should_kill, includes, response) ==
  LET includes2 == int_list_to_string(includes)
      params == build_optional_params([start_num |-> start_num, should_kill |-> should_kill, includes |-> includes2])
      res == _get(self, PyStr("stream/" \o Format(stream_id) \o "/manifest.mpd"), params, response)
  IN  IF ResponseTruthy(res.ret) THEN Effect(res.self, res.wire, PyStr(res.ret.text), res.raised)
      ELSE Effect(res.self, res.wire, PyNone, res.raised)

(***************************************************************************)
(* Inputs.                                                                 *)
(***************************************************************************)
BaseUrls == {"http://host", "http://host/"}
Usernames == {"user"}
Passwords == {"pw"}
Tokens == {PyStr("abc"), PyStr("xyz"), PyStr(""), PyNone}
\* decoded JSON bodies the server may send
Bodies == {PyDict(EmptyMap), PyDict([error |-> PyStr("denied")]), PyDict([data |-> PyStr("payload")])}
LoginBodies == {PyDict(EmptyMap), PyDict([error |-> PyStr("denied")])} \cup {PyDict([token |-> tok]) : tok \in Tokens}
\* the responses the server may give: to an endpoint call, to the login
Responses == [ok : BOOLEAN, json : Bodies, text : {"<MPD/>"}]
LoginResponses == [ok : BOOLEAN, json : LoginBodies, text : {""}]

Init ==
  /\ phase = "new"
  /\ _url = ""
  /\ _token = PyNone
  /\ call = [op |-> "", args |-> EmptyMap]
  /\ wire = <<>>
  /\ ret = PyNone
  /\ raised = ""
  /\ first = <<>>

\* a call returns (or raises): the object and the observation of the call
Return(op, args, eff, nextPhase) ==
  /\ phase' = nextPhase
  /\ _url' = eff.self._url
  /\ _token' = eff.self._token
  /\ call' = [op |-> op, args |-> args]
  /\ wire' = eff.wire
  /\ ret' = eff.ret
  /\ raised' = eff.raised
  /\ first' = IF first = <<>> /\ eff.wire # <<>> THEN <<eff.wire[1]>> ELSE first

\* API(base_url, username, password): the object exists for the caller only
\* when __init__ returns without raising
__init__ ==
  /\ phase = "new"
  /\ \E base_url \in BaseUrls, username \in Usernames, password \in Passwords, response \in LoginResponses :
       LET eff == Construct(base_url, username, password, response)
       IN  Return("__init__", [base_url |-> PyStr(base_url), username |-> PyStr(username), password |-> PyStr(password)], eff, IF eff.raised = "" THEN "ready" ELSE "failed")

\* the constructed object, as a method sees it
Self == [_url |-> _url, _token |-> _token]

\* a method of the constructed object has been called and returns or raises
Invoke(op, args, eff) == Return(op, args, eff, "ready")

Ids == {PyInt(i) : i \in 1..MaxId}
MediaTypes == {PyStr("movie"), PyStr("tv"), PyStr("book"), PyStr("")}
Queries == {PyStr("alien")}

libraries ==
  /\ phase = "ready"
  /\ \E response \in Responses : Invoke("libraries", EmptyMap, get_json(Self, Pair(PyStr("library"), PyNone), response))

get_library_items ==
  /\ phase = "ready"
  /\ \E library_id \in Ids, response \in Responses : Invoke("get_library_items", [library_id |-> library_id], get_json(Self, Pair(PyStr("library/" \o Format(library_id) \o "/media"), PyNone), response))

get_unmatched_library_items ==
  /\ phase = "ready"
  /\ \E library_id \in Ids, response \in Responses : Invoke("get_unmatched_library_items", [library_id |-> library_id], get_json(Self, Pair(PyStr("library/" \o Format(library_id) \o "/unmatched"), PyNone), response))

get_media ==
  /\ phase = "ready"
  /\ \E media_id \in Ids, response \in Responses : Invoke("get_media", [media_id |-> media_id], get_json(Self, Pair(PyStr("media/" \o Format(media_id)), PyNone), response))

get_media_files ==
  /\ phase = "ready"
  /\ \E media_id \in Ids, response \in Responses : Invoke("get_media_files", [media_id |-> media_id], get_json(Self, Pair(PyStr("media/" \o Format(media_id) \o "/files"), PyNone), response))

update_media ==
  /\ phase = "ready"
  /\ \E media_id \in Ids, kwargs \in {PyDict(EmptyMap), PyDict([name |-> PyStr("title")])}, response \in Responses : Invoke("update_media", [media_id |-> media_id, kwargs |-> kwargs], patch_bool(Self, Pair(PyStr("media/" \o Format(media_id)), PyDict([data |-> kwargs])), response))

delete_media ==
  /\ phase = "ready"
  /\ \E media_id \in Ids, response \in Responses : Invoke("delete_media", [media_id |-> media_id], delete_bool(Self, Pair(PyStr("media/" \o Format(media_id)), PyNone), response))

map_progress ==
  /\ phase = "ready"
  /\ \E media_id \in Ids, response \in Responses : Invoke("map_progress", [media_id |-> media_id], post_bool(Self, Pair(PyStr("media/" \o Format(media_id) \o "/progress"), PyNone), response))

get_media_file_info ==
  /\ phase = "ready"
  /\ \E media_id \in Ids, response \in Responses : Invoke("get_media_file_info", [media_id |-> media_id], get_json(Self, Pair(PyStr("mediafile/" \o Format(media_id)), PyNone), response))

rematch_media_file ==
  /\ phase = "ready"
  /\ \E media_id \in Ids, tmdb_id \in Ids, media_type \in MediaTypes, response \in Responses : Invoke("rematch_media_file", [media_id |-> media_id, tmdb_id |-> tmdb_id, media_type |-> media_type], patch_bool(Self, rematch_media_file_func(media_id, tmdb_id, media_type), response))

get_library ==
  /\ phase = "ready"
  /\ \E library_id \in Ids, response \in Responses : Invoke("get_library", [library_id |-> library_id], get_json(Self, Pair(PyStr("library/" \o Format(library_id) \o "/media"), PyNone), response))

add_library ==
  /\ phase = "ready"
  /\ \E paths \in {PyList(<<PyStr("/movies")>>)}, name \in {PyStr("Films")}, media_type \in MediaTypes, response \in Responses : Invoke("add_library", [paths |-> paths, name |-> name, media_type |-> media_type], add_library_impl(Self, paths, name, media_type, response))

delete_library ==
  /\ phase = "ready"
  /\ \E library_id \in Ids, response \in Responses : Invoke("delete_library", [library_id |-> library_id], delete_bool(Self, Pair(PyStr("library/" \o Format(library_id)), PyNone), response))

settings ==
  /\ phase = "ready"
  /\ \E response \in Responses : Invoke("settings", EmptyMap, get_json(Self, Pair(PyStr("user/settings"), PyNone), response))

who_am_i ==
  /\ phase = "ready"
  /\ \E response \in Responses : Invoke("who_am_i", EmptyMap, get_json(Self, Pair(PyStr("auth/whoami"), PyNone), response))

banner ==
  /\ phase = "ready"
  /\ \E response \in Responses : Invoke("banner", EmptyMap, get_json(Self, Pair(PyStr("dashboard/banner"), PyNone), response))

dashboard ==
  /\ phase = "ready"
  /\ \E response \in Responses : Invoke("dashboard", EmptyMap, get_json(Self, Pair(PyStr("dashboard"), PyNone), response))

tmdb_search ==
  /\ phase = "ready"
  /\ \E query \in Queries, media_type \in MediaTypes, year \in {PyNone, PyInt(1979)}, response \in Responses : Invoke("tmdb_search", [query |-> query, media_type |-> media_type, year |-> year], get_json(Self, tmdb_search_func(query, media_type, year), response))

search ==
  /\ phase = "ready"
  /\ \E query \in Queries, response \in Responses : Invoke("search", [query |-> query], get_json(Self, Pair(PyStr("search"), PyDict([query |-> query])), response))

\* a property: its getter is always called without a path
file_browser ==
  /\ phase = "ready"
  /\ \E response \in Responses : Invoke("file_browser", EmptyMap, get_json(Self, file_browser_func(PyNone), response))

get_tv_season ==
  /\ phase = "ready"
  /\ \E tv_id \in Ids, season_number \in Ids, response \in Responses : Invoke("get_tv_season", [tv_id |-> tv_id, season_number |-> season_number], get_json(Self, Pair(PyStr("tv/" \o Format(tv_id) \o "/season/" \o Format(season_number)), PyNone), response))

delete_tv_season ==
  /\ phase = "ready"
  /\ \E tv_id \in Ids, season_number \in Ids, response \in Responses : Invoke("delete_tv_season", [tv_id |-> tv_id, season_number |-> season_number], delete_bool(Self, Pair(PyStr("tv/" \o Format(tv_id) \o "/season/" \o Format(season_number)), PyNone), response))

get_tv_episode ==
  /\ phase = "ready"
  /\ \E episode_id \in Ids, response \in Responses : Invoke("get_tv_episode", [episode_id |-> episode_id], get_json(Self, Pair(PyStr("episode/" \o Format(episode_id)), PyNone), response))

delete_tv_episode ==
  /\ phase = "ready"
  /\ \E episode_id \in Ids, response \in Responses : Invoke("delete_tv_episode", [episode_id |-> episode_id], delete_bool(Self, Pair(PyStr("episode/" \o Format(episode_id)), PyNone), response))

get_virtual_manifest ==
  /\ phase = "ready"
  /\ \E stream_id \in Ids, manifest_guid \in {PyNone, PyStr("guid")}, response \in Responses : Invoke("get_virtual_manifest", [stream_id |-> stream_id, manifest_guid |-> manifest_guid], get_json(Self, Pair(PyStr("stream/" \o Format(stream_id) \o "/manifest"), build_optional_params([manifest_guid |-> manifest_guid])), response))

get_manifest ==
  /\ phase = "ready"
  /\ \E stream_id \in Ids, start_num \in {PyInt(0)}, should_kill \in {PyFalse}, includes \in {PyNone, PyList(<<1, 2>>)}, response \in Responses : Invoke("get_manifest", [stream_id |-> stream_id, start_num |-> start_num, should_kill |-> should_kill, includes |-> includes], get_manifest_impl(Self, stream_id, start_num, should_kill, includes, response))

(***************************************************************************)
(* The transport primitives with JSON decoding, called directly, and the   *)
(* shaping decorators around a method that returns any (command, params).  *)
(***************************************************************************)
Commands == {PyStr("dashboard"), PyStr(""), PyNone}
ParamSets == {PyNone, PyDict([page |-> PyInt(1)])}
KwargSets == {EmptyMap, [k \in {"json"} |-> PyDict([name |-> PyStr("title")])]}

call_get_json ==
  /\ phase = "ready"
  /\ \E command \in Commands \ {PyNone}, params \in ParamSets, response \in Responses : Invoke("_get_json", [command |-> command, params |-> params], _get_json(Self, command, params, response))

call_post_json ==
  /\ phase = "ready"
  /\ \E command \in Commands \ {PyNone}, params \in ParamSets, kwargs \in KwargSets, response \in Responses : Invoke("_post_json", [command |-> command, params |-> params, kwargs |-> PyDict(kwargs)], _post_json(Self, command, params, kwargs, response))

call_patch_json ==
  /\ phase = "ready"
  /\ \E command \in Commands \ {PyNone}, params \in ParamSets, kwargs \in KwargSets, response \in Responses : Invoke("_patch_json", [command |-> command, params |-> params, kwargs |-> PyDict(kwargs)], _patch_json(Self, command, params, kwargs, response))

call_delete_json ==
  /\ phase = "ready"
  /\ \E command \in Commands \ {PyNone}, params \in ParamSets, kwargs \in KwargSets, response \in Responses : Invoke("_delete_json", [command |-> command, params |-> params, kwargs |-> PyDict(kwargs)], _delete_json(Self, command, params, kwargs, response))

Policies == {"get_json", "post_json", "post_bool", "patch_json", "patch_bool", "delete_json", "delete_bool"}

Decorate(policy, self, func, response) ==
  CASE policy = "get_json" -> get_json(self, func, response)
    [] policy = "post_json" -> post_json(self, func, response)
    [] policy = "post_bool" -> post_bool(self, func, response)
    [] policy = "patch_json" -> patch_json(self, func, response)
    [] policy = "patch_bool" -> patch_bool(self, func, response)
    [] policy = "delete_json" -> delete_json(self, func, response)
    [] policy = "delete_bool" -> delete_bool(self, func, response)

decorated ==
  /\ phase = "ready"
  /\ \E policy \in Policies, command \in Commands, params \in ParamSets, response \in Responses : Invoke(policy, [command |-> command, params |-> params], Decorate(policy, Self, Pair(command, params), response))

Next ==
  \/ __init__
  \/ libraries
  \/ get_library_items
  \/ get_unmatched_library_items
  \/ get_media
  \/ get_media_files
  \/ update_media
  \/ delete_media
  \/ map_progress
  \/ get_media_file_info
  \/ rematch_media_file
  \/ get_library
  \/ add_library
  \/ delete_library
  \/ settings
  \/ who_am_i
  \/ banner
  \/ dashboard
  \/ tmdb_search
  \/ search
  \/ file_browser
  \/ get_tv_season
  \/ delete_tv_season
  \/ get_tv_episode
  \/ delete_tv_episode
  \/ get_virtual_manifest
  \/ get_manifest
  \/ call_get_json
  \/ call_post_json
  \/ call_patch_json
  \/ call_delete_json
  \/ decorated

Spec == Init /\ [][Next]_vars
(***************************************************************************)
(* The claims.  wire holds the requests of the latest call, each with the  *)
(* response it got; first holds the first request the client ever issued.  *)
(***************************************************************************)
LoginUrl == "http://host/api/v1/auth/login"
JsonPrimitives == {"_get_json", "_post_json", "_patch_json", "_delete_json"}
BoolMethods == {"update_media", "delete_media", "map_progress", "rematch_media_file", "add_library", "delete_library", "delete_tv_season", "delete_tv_episode"}
ValidatedMethods == {"tmdb_search", "rematch_media_file", "add_library"}
JsonPolicies == {"get_json", "post_json", "patch_json", "delete_json"}
\* the latest call was a method call on the constructed client
AfterConstruction == phase = "ready" /\ call.op # "__init__"

\* C1: whatever token t the successful login reply carried, every request
\* issued after the construction carries the header Authorization with the
\* value t and no other header value.
C1_AuthorizationOnEveryRequest ==
  AfterConstruction =>
    \A i \in 1..Len(wire) : wire[i].req.headers = [h \in {"Authorization"} |-> Format(first[1].resp.json.d["token"])]

\* C2 as stated: the construction succeeds exactly when the login response
\* is truthy; then the stored token is the reply's token field, and otherwise
\* the token stays unset and the construction raises "Authentication failed".
C2_SucceedsIffResponseTruthy ==
  call.op = "__init__" =>
    LET r == wire[1].resp
    IN  /\ (phase = "ready") <=> r.ok
        /\ r.ok => ("token" \in DOMAIN r.json.d /\ _token = r.json.d["token"])
        /\ ~r.ok => (_token = PyNone /\ raised = "Authentication failed")

\* C2 as amended: the construction succeeds exactly when the login response
\* is truthy and its decoded body is a non-empty object with a token field,
\* and then the stored token is that field; a falsy response or an empty body
\* leaves the token unset and raises "Authentication failed"; a non-empty body
\* without a token field leaves the token unset and raises a key error.
C2_SucceedsIffTokenDecoded ==
  call.op = "__init__" =>
    LET r == wire[1].resp
        decoded == r.ok /\ Truthy(r.json)
        hasToken == "token" \in DOMAIN r.json.d
    IN  /\ (phase = "ready") <=> (decoded /\ hasToken)
        /\ (phase = "failed") <=> ~(decoded /\ hasToken)
        /\ (decoded /\ hasToken) => (_token = r.json.d["token"] /\ raised = "")
        /\ ~decoded => (_token = PyNone /\ raised = "Authentication failed")
        /\ (decoded /\ ~hasToken) => (_token = PyNone /\ raised = "KeyError")

C2_Witness == call.op = "__init__" /\ phase = "ready" /\ wire[1].resp.ok /\ _token = PyStr("abc")

\* C3: each of _get_json, _post_json, _patch_json and _delete_json issues its
\* request and returns the decoded body when the response is truthy and an
\* empty mapping otherwise, without raising.
C3_JsonOrEmptyMapping ==
  call.op \in JsonPrimitives =>
    /\ Len(wire) = 1
    /\ raised = ""
    /\ ret = IF wire[1].resp.ok THEN wire[1].resp.json ELSE PyDict(EmptyMap)

C3_Witness == call.op = "_patch_json" /\ ~wire[1].resp.ok /\ Truthy(wire[1].resp.json) /\ ret = PyDict(EmptyMap)

\* C4: a boolean-returning endpoint method that got a response returns True
\* when the response is truthy and False otherwise, and does not raise; the
\* methods that validate nothing always get a response.
C4_BoolIsResponseTruthiness ==
  call.op \in BoolMethods =>
    /\ (call.op \notin ValidatedMethods) => Len(wire) = 1
    /\ wire # <<>> => (Len(wire) = 1 /\ raised = "" /\ ret = PyBool(wire[1].resp.ok))

C4_Witness == call.op = "map_progress" /\ Len(wire) = 1 /\ ~wire[1].resp.ok /\ ret = PyFalse /\ raised = ""

\* C5: tmdb_search, rematch_media_file and add_library raise "Invalid media
\* type" and issue no request when media_type is neither movie nor tv, and
\* issue their request when it is one of the two.
C5_MediaTypeValidatedBeforeRequest ==
  call.op \in ValidatedMethods =>
    IF call.args.media_type \in {PyStr("movie"), PyStr("tv")}
    THEN Len(wire) = 1 /\ raised = ""
    ELSE wire = <<>> /\ raised = "Invalid media type"

C5_Witness == call.op = "add_library" /\ call.args.media_type = PyStr("book") /\ wire = <<>> /\ raised = "Invalid media type"

\* C6: no call, the construction included, issues more than one HTTP
\* request, whatever the response to its first request was.
C6_AtMostOneRequestPerCall == Len(wire) <= 1

C6_Witness == call.op = "libraries" /\ Len(wire) = 1 /\ ~wire[1].resp.ok /\ ret = PyDict(EmptyMap)

\* C7: once the construction has returned, no method call changes the stored
\* token or the base URL, and before it has returned the token is unset.
C7_TokenAndUrlFrozen == [][(phase = "new" => _token = PyNone) /\ (phase = "ready" => (_token' = _token /\ _url' = _url))]_vars

C7_Witness == call.op = "delete_media" /\ ~wire[1].resp.ok /\ _token = PyStr("abc") /\ _url = "http://host/api/v1"

\* C8 as stated: rematch_media_file issues a PATCH to mediafile/{media_id}/match
\* whose request body carries tmdb_id and media_type.
C8_RematchSendsBody ==
  (call.op = "rematch_media_file" /\ wire # <<>>) =>
    /\ wire[1].req.verb = "PATCH"
    /\ wire[1].req.url = _url \o "/mediafile/" \o Format(call.args.media_id) \o "/match"
    /\ \E k \in DOMAIN wire[1].req.kwargs : wire[1].req.kwargs[k] = PyDict([tmdb_id |-> call.args.tmdb_id, media_type |-> call.args.media_type])

\* C8 as amended: rematch_media_file issues a PATCH to mediafile/{media_id}/match
\* that carries tmdb_id and media_type as its query parameters, and the
\* request has no body.
C8_RematchSendsQueryParameters ==
  (call.op = "rematch_media_file" /\ wire # <<>>) =>
    /\ wire[1].req.verb = "PATCH"
    /\ wire[1].req.url = _url \o "/mediafile/" \o Format(call.args.media_id) \o "/match"
    /\ wire[1].req.params = [tmdb_id |-> call.args.tmdb_id, media_type |-> call.args.media_type]
    /\ wire[1].req.kwargs = EmptyMap

C8_Witness == call.op = "rematch_media_file" /\ Len(wire) = 1 /\ call.args.media_type = PyStr("tv") /\ wire[1].req.verb = "PATCH"

\* C9: under every shaping decorator, a wrapped method that returns an empty
\* or absent path makes the call issue no request and return the policy's
\* empty value: an empty mapping for a JSON policy, False for a boolean one.
C9_EmptyPathSkipsRequest ==
  (call.op \in Policies /\ ~Truthy(call.args.command)) =>
    /\ wire = <<>>
    /\ raised = ""
    /\ ret = IF call.op \in JsonPolicies THEN PyDict(EmptyMap) ELSE PyFalse

C9_Witness == call.op = "patch_json" /\ call.args.command = PyNone /\ wire = <<>> /\ ret = PyDict(EmptyMap)

\* C10: the first request the client issues is the POST to auth/login, with
\* no Authorization header; while the login has not succeeded no other
\* request is issued, and after a failed login none is issued at all.
C10_LoginComesFirst ==
  /\ first # <<>> => (first[1].req.verb = "POST" /\ first[1].req.url = LoginUrl /\ first[1].req.headers = EmptyMap)
  /\ phase = "new" => (first = <<>> /\ wire = <<>>)
  /\ phase = "failed" => (call.op = "__init__" /\ wire = first)
  /\ (first # <<>> /\ ~first[1].resp.ok) => phase = "failed"
  /\ (call.op \notin {"", "__init__"}) => (first # <<>> /\ first[1].resp.ok)

C10_Witness == call.op = "dashboard" /\ Len(wire) = 1 /\ first # <<>> /\ first[1].resp.ok /\ first[1].req.url = LoginUrl
====
